---- MODULE Spec2Model ----
(***************************************************************************)
(* A model of the adjacency-graph store (graph.hpp / graph.cpp), the Path  *)
(* builder, the cycle enumerator and the conflict-graph builder            *)
(* (paths-cycles.hpp / paths-cycles.cpp).                                  *)
(*                                                                         *)
(* A Graph object is a record; every Graph method is an operator that      *)
(* takes the object and returns the object after the call (and the value   *)
(* the method returns).  Pointers to Vertex objects are the vertex ids,    *)
(* pointers to Edge records are heap handles, NULL is -1.                  *)
(***************************************************************************)
EXTENDS Integers, Sequences, FiniteSets, TLC

VARIABLES
    g,        \* the adjacency graph (a Graph object)
    cg,       \* the CyclesGraph object built from g (a Graph object)
    cycles,   \* the cycle list handed to buildCyclesGraph(Graph*, forward_list<Path*>*)
    built,    \* 0 before a CyclesGraph is constructed, else the len it was constructed with + 1
    copy,     \* the Graph made from g by the copy constructor (NoGraph before)
    path,     \* a Path object over the vertices and edges of g
    op,       \* the last method called on g and what it returned
    crashed,  \* TRUE once a method has dereferenced a freed Edge record and the run aborted
    heap      \* the Paths allocated with new while a CyclesGraph was built, and who holds them

vars == <<g, cg, cycles, built, copy, path, op, crashed, heap>>

(***************************************************************************)
(* Bounds of the model.                                                    *)
(***************************************************************************)
MaxV == 2          \* vertices alive at the same time in the store runs
MaxE == 2          \* logical edges alive at the same time in the store runs
MaxGene == 2       \* gene ids 0..MaxGene are used in extremities
MaxLen == 4        \* cycle lengths 0..MaxLen are requested
MaxCat == 4        \* edges a driver adds to an adjacency graph before enumerating
MaxPath == 3       \* vertices, and edges, a Path holds in the path runs

NULL == -1

(***************************************************************************)
(* Labels.  A label is a string; the null pointer label is NullLabel.      *)
(***************************************************************************)
GRAPH_MAX_LABEL == 100
NullLabel == "<null>"

\* strnlen(label, _GRAPH_MAX_LABEL) + memcpy: the stored copy of a label
\* CopyLabel with the cut one character short
CopyLabelShort(label) ==
    IF label = NullLabel THEN NullLabel
    ELSE IF Len(label) > GRAPH_MAX_LABEL - 1 THEN SubSeq(label, 1, GRAPH_MAX_LABEL - 1)
    ELSE label

CopyLabel(label) ==
    IF label = NullLabel THEN NullLabel
    ELSE IF Len(label) > GRAPH_MAX_LABEL THEN SubSeq(label, 1, GRAPH_MAX_LABEL)
    ELSE label

(***************************************************************************)
(* Extremity                                                               *)
(***************************************************************************)
TAIL == "t"
HEAD == "h"
UNDEF == "_"
ExtremityTypes == {TAIL, HEAD, UNDEF}

Extremity(id, t) == [id |-> id, t |-> t]

\* Extremity::operator==
ExtEq(a, b) == (a.id = b.id /\ a.t = b.t) \/ (a.t = UNDEF /\ b.t = UNDEF)

(***************************************************************************)
(* Edge records                                                            *)
(***************************************************************************)
\* Edge::Edge(adj, label)
NewEdge(adj, label) ==
    [adj |-> adj, adjRef |-> NULL, label |-> CopyLabel(label),
     ex1 |-> Extremity(0, UNDEF), ex2 |-> Extremity(0, UNDEF), sibling |-> NULL]

\* Edge::incompatible, on two Edge records
\* incompatible without its second test
incompatibleFirstTestOnly(x, y) ==
    IF (x.ex1.id = y.ex1.id) # (x.ex2.id = y.ex2.id) THEN TRUE
    ELSE FALSE

incompatible(x, y) ==
    IF (x.ex1.id = y.ex1.id) # (x.ex2.id = y.ex2.id) THEN TRUE
    ELSE IF (x.ex1.id = y.ex2.id) # (x.ex2.id = y.ex1.id) THEN TRUE
    ELSE FALSE

(***************************************************************************)
(* Graph objects                                                           *)
(***************************************************************************)
\* Graph::Graph(label, maxvertices)
NewGraph(maxvertices) ==
    [n |-> 0, maxn |-> IF maxvertices < 1 THEN 128 ELSE maxvertices,
     m |-> 0, lastVid |-> -1,
     vertices |-> <<>>,      \* id -> Vertex, on the ids whose slot is not NULL
     E |-> <<>>,             \* handle -> Edge record, on the records not freed
     npart |-> <<>>,         \* part -> count, on the parts whose count is not 0
     fsize |-> <<>>]         \* family -> count, on the families whose count is not 0

Live(G) == DOMAIN G.vertices
Records(G) == DOMAIN G.E

\* a zero-initialised int array held sparsely
Count(arr, k) == IF k \in DOMAIN arr THEN arr[k] ELSE 0
Bump(arr, k, d) ==
    LET c == Count(arr, k) + d
        D == IF c = 0 THEN DOMAIN arr \ {k} ELSE DOMAIN arr \cup {k}
    IN [x \in D |-> IF x = k THEN c ELSE arr[x]]

\* Vertex::Vertex(id) followed by the assignments of Graph::addVertex
NewVertex(id, label, part, family) ==
    [id |-> id, degree |-> 0, direction |-> 0, part |-> part, family |-> family,
     label |-> CopyLabel(label), edges |-> <<>>, data |-> NULL,
     ex1 |-> Extremity(0, UNDEF), ex2 |-> Extremity(0, UNDEF)]

RECURSIVE GrowMaxn(_, _)
GrowMaxn(maxn, id) == IF id >= maxn THEN GrowMaxn(maxn * 2, id) ELSE maxn

\* Graph::addVertex(int id, label, part, family)
\* addVertex that counts the vertex before it looks at the slot
addVertexIdCountFirst(G, id, label, part0, family) ==
    LET part == IF part0 < 0 THEN 0 ELSE part0
        maxn == GrowMaxn(G.maxn, id)
        G1 == [G EXCEPT !.maxn = maxn,
                        !.fsize = Bump(G.fsize, family, 1),
                        !.lastVid = IF id > G.lastVid THEN id ELSE G.lastVid,
                        !.n = G.n + 1,
                        !.npart = Bump(G.npart, part, 1)]
    IN IF id \in Live(G) THEN [g |-> G1, ret |-> NULL]
       ELSE [g |-> [G1 EXCEPT !.vertices = [x \in Live(G) \cup {id} |->
                                 IF x = id THEN NewVertex(id, label, part, family)
                                 ELSE G.vertices[x]]],
             ret |-> id]

addVertexId(G, id, label, part0, family) ==
    LET part == IF part0 < 0 THEN 0 ELSE part0
        maxn == GrowMaxn(G.maxn, id)
    IN IF id \in Live(G) THEN [g |-> [G EXCEPT !.maxn = maxn], ret |-> NULL]
       ELSE [g |-> [G EXCEPT !.maxn = maxn,
                             !.fsize = Bump(G.fsize, family, 1),
                             !.lastVid = IF id > G.lastVid THEN id ELSE G.lastVid,
                             !.n = G.n + 1,
                             !.npart = Bump(G.npart, part, 1),
                             !.vertices = [x \in Live(G) \cup {id} |->
                                 IF x = id THEN NewVertex(id, label, part, family)
                                 ELSE G.vertices[x]]],
             ret |-> id]

\* the first id of 0..maxn-1 whose slot is NULL, maxn when there is none
FirstHole(G) ==
    LET holes == {i \in 0..(G.maxn - 1) : i \notin Live(G)}
    IN IF holes = {} THEN G.maxn ELSE CHOOSE i \in holes : \A j \in holes : i <= j

\* Graph::addVertex(label, part, family)
addVertex(G, label, part, family) ==
    LET id == IF G.lastVid < G.maxn - 1 THEN G.lastVid + 1 ELSE FirstHole(G)
    IN addVertexId(G, id, label, part, family)

\* the least pair of heap addresses not in use
FreshSlot(G) == CHOOSE s \in 0..G.m : 2 * s \notin Records(G) /\ \A r \in 0..(s - 1) : 2 * r \in Records(G)

\* Vertex::addEdge: the new record goes to the front of the list
VertexAddEdge(v, e) == [v EXCEPT !.edges = <<e>> \o v.edges, !.degree = (v.degree + 1) % 65536]

\* Graph::addEdge(Vertex*, Vertex*, label); the two new records live at 2*slot and 2*slot+1
addEdge(G, v1, v2, label, slot) ==
    IF v1 = v2 \/ v1 = NULL \/ v2 = NULL THEN [g |-> G, ret |-> NULL]
    ELSE LET e1 == 2 * slot
             e2 == 2 * slot + 1
         IN [g |-> [G EXCEPT !.m = G.m + 1,
                             !.vertices[v1] = VertexAddEdge(G.vertices[v1], e1),
                             !.vertices[v2] = VertexAddEdge(G.vertices[v2], e2),
                             !.E = [h \in Records(G) \cup {e1, e2} |->
                                 IF h = e1 THEN [NewEdge(v2, label) EXCEPT !.adjRef = e2]
                                 ELSE IF h = e2 THEN [NewEdge(v1, label) EXCEPT !.adjRef = e1]
                                 ELSE G.E[h]]],
             ret |-> e1]

\* the values a read of vertices[id] outside 0..maxn-1 may yield besides NULL:
\* pointers that lead to no Vertex
WildPointers == {-2, -3}

\* Graph::getVertex(int id): vertices[id] without a range check; wild is what
\* the read yields when id lies outside the vector
getVertex(G, id, wild) ==
    IF id \in 0..(G.maxn - 1) THEN (IF id \in Live(G) THEN id ELSE NULL) ELSE wild

\* TRUE when Graph::addEdge(int, int, label) hands a wild pointer to the
\* pointer form and that form goes on to dereference it
WildDeref(G, id1, id2, w1, w2) ==
    /\ ~(id1 >= G.maxn \/ id2 > G.maxn)
    /\ LET v1 == getVertex(G, id1, w1)
           v2 == getVertex(G, id2, w2)
       IN /\ ~(v1 = v2 \/ v1 = NULL \/ v2 = NULL)
          /\ (v1 \in WildPointers \/ v2 \in WildPointers)

\* Graph::addEdge(int id1, int id2, label)
addEdgeId(G, id1, id2, label, slot, w1, w2) ==
    IF id1 >= G.maxn \/ id2 > G.maxn THEN [g |-> G, ret |-> NULL]
    ELSE addEdge(G, getVertex(G, id1, w1), getVertex(G, id2, w2), label, slot)

\* Edge::setExtremities on record e
\* setExtremities that leaves the mirror record as it was
setExtremitiesThisRecordOnly(G, e, id1, t1, id2, t2) ==
    [G EXCEPT !.E = [h \in Records(G) |->
        IF h = e THEN [G.E[h] EXCEPT !.ex1 = Extremity(id1, t1), !.ex2 = Extremity(id2, t2)]
        ELSE G.E[h]]]

setExtremities(G, e, id1, t1, id2, t2) ==
    LET r == G.E[e].adjRef
    IN [G EXCEPT !.E = [h \in Records(G) |->
           IF h = e THEN [G.E[h] EXCEPT !.ex1 = Extremity(id1, t1), !.ex2 = Extremity(id2, t2)]
           ELSE IF h = r THEN [G.E[h] EXCEPT !.ex2 = Extremity(id1, t1), !.ex1 = Extremity(id2, t2)]
           ELSE G.E[h]]]

\* Edge::setSibling on record e: both records of the edge get the sibling s
setSibling(G, e, s) ==
    LET r == G.E[e].adjRef
    IN [G EXCEPT !.E = [h \in Records(G) |->
           IF h = e \/ h = r THEN [G.E[h] EXCEPT !.sibling = s] ELSE G.E[h]]]

\* the sequence q without its element x
RECURSIVE SeqRemove(_, _)
SeqRemove(q, x) ==
    IF q = <<>> THEN <<>>
    ELSE IF Head(q) = x THEN Tail(q)
    ELSE <<Head(q)>> \o SeqRemove(Tail(q), x)

\* Vertex::removeEdge: unlink the record from the list of its vertex
VertexRemoveEdge(v, e) == [v EXCEPT !.edges = SeqRemove(v.edges, e), !.degree = (v.degree + 65535) % 65536]

\* Graph::removeEdge(Edge*).  When the sibling pointer of e names a freed
\* record, setSibling(NULL) writes into freed memory and no live record changes.
\* removeEdge that detaches the record from its own vertex only
removeEdgeThisEndOnly(G, e) ==
    IF e = NULL THEN G
    ELSE LET e1 == e
             e2 == G.E[e].adjRef
             v1 == G.E[e2].adj
             s == G.E[e1].sibling
             G1 == IF s # NULL /\ s \in Records(G) THEN setSibling(G, s, NULL) ELSE G
         IN [G1 EXCEPT !.vertices[v1] = VertexRemoveEdge(G1.vertices[v1], e1),
                       !.E = [h \in Records(G1) \ {e1} |-> G1.E[h]],
                       !.m = G1.m - 1]

removeEdge(G, e) ==
    IF e = NULL THEN G
    ELSE LET e1 == e
             e2 == G.E[e].adjRef
             v1 == G.E[e2].adj
             v2 == G.E[e1].adj
             s == G.E[e1].sibling
             G1 == IF s # NULL /\ s \in Records(G) THEN setSibling(G, s, NULL) ELSE G
         IN [G1 EXCEPT !.vertices[v1] = VertexRemoveEdge(G1.vertices[v1], e1),
                       !.vertices[v2] = VertexRemoveEdge(G1.vertices[v2], e2),
                       !.E = [h \in Records(G1) \ {e1, e2} |-> G1.E[h]],
                       !.m = G1.m - 1]

\* TRUE when Graph::removeEdge(e) dereferences a freed Edge record
DanglingSibling(G, e) == e # NULL /\ G.E[e].sibling # NULL /\ G.E[e].sibling \notin Records(G)

\* Graph::removeVertex(Vertex*)
RECURSIVE RemoveIncident(_, _)
RemoveIncident(G, v) ==
    IF G.vertices[v].edges = <<>> THEN G
    ELSE RemoveIncident(removeEdge(G, Head(G.vertices[v].edges)), v)

removeVertex(G, v) ==
    IF v = NULL THEN G
    ELSE LET G1 == RemoveIncident(G, v)
             vx == G1.vertices[v]
         IN [G1 EXCEPT !.vertices = [x \in Live(G1) \ {v} |-> G1.vertices[x]],
                       !.npart = Bump(G1.npart, vx.part, -1),
                       !.fsize = Bump(G1.fsize, vx.family, -1),
                       !.n = G1.n - 1]

\* TRUE when removing the edges of v dereferences a freed Edge record
RECURSIVE DanglingIncident(_, _)
DanglingIncident(G, v) ==
    IF v = NULL THEN FALSE
    ELSE IF G.vertices[v].edges = <<>> THEN FALSE
    ELSE LET e == Head(G.vertices[v].edges)
         IN DanglingSibling(G, e) \/ DanglingIncident(removeEdge(G, e), v)

(***************************************************************************)
(* Edge ordering (graph.hpp), on the records x and y of graph G            *)
(***************************************************************************)
\* Edge::operator==
EdgeSame(G, x, y) == x = y \/ x = G.E[y].adjRef

\* Edge::operator<
EdgeLess(G, x, y) ==
    IF x = y \/ x = G.E[y].adjRef THEN TRUE
    ELSE LET a == G.E[x]
             b == G.E[y]
             a0 == IF a.ex1.id > a.ex2.id THEN a.ex2.id ELSE a.ex1.id
             a1 == IF a.ex1.id > a.ex2.id THEN a.ex1.id ELSE a.ex2.id
             b0 == IF b.ex1.id > b.ex2.id THEN b.ex2.id ELSE b.ex1.id
             b1 == IF b.ex1.id > b.ex2.id THEN b.ex1.id ELSE b.ex2.id
         IN IF a.ex1.t = UNDEF THEN TRUE
            ELSE IF b.ex1.t = UNDEF THEN FALSE
            ELSE IF a0 < b0 THEN TRUE
            ELSE IF a0 > b0 THEN FALSE
            ELSE IF a1 < b1 THEN TRUE
            ELSE IF a1 > b1 THEN FALSE
            ELSE a.ex1.t = TAIL

\* Edge::operator<=
EdgeLeq(G, x, y) == IF x = y \/ x = G.E[y].adjRef THEN TRUE ELSE EdgeLess(G, x, y)

\* Edge::operator>
EdgeGreater(G, x, y) == ~EdgeLeq(G, x, y)

(***************************************************************************)
(* Path (paths-cycles.hpp): l vertices and le edges held in two vectors    *)
(* whose sizes are the capacities; a slot never written holds NULL.        *)
(***************************************************************************)
INITIAL_CAPACITY == 4

Nulls(k) == [i \in 1..k |-> NULL]

\* Path::Path()
PathEmpty == [l |-> 0, le |-> 0, v |-> Nulls(INITIAL_CAPACITY), e |-> Nulls(INITIAL_CAPACITY)]

\* Path::addVertex
PathAddVertex(p, x) ==
    LET v1 == IF p.l = Len(p.v) THEN p.v \o Nulls(Len(p.v)) ELSE p.v
    IN [p EXCEPT !.v = [v1 EXCEPT ![p.l + 1] = x], !.l = p.l + 1]

\* Path::removeVertex
PathRemoveVertex(p) ==
    LET v1 == IF p.l < Len(p.v) \div 2 THEN SubSeq(p.v, 1, Len(p.v) \div 2) ELSE p.v
    IN [p EXCEPT !.v = v1, !.l = p.l - 1]

\* Path::addEdge
PathAddEdge(p, x) ==
    LET e1 == IF p.le = Len(p.e) THEN p.e \o Nulls(Len(p.e)) ELSE p.e
    IN [p EXCEPT !.e = [e1 EXCEPT ![p.le + 1] = x], !.le = p.le + 1]

\* Path::removeEdge
PathRemoveEdge(p) ==
    LET e1 == IF p.le < Len(p.e) \div 2 THEN SubSeq(p.e, 1, Len(p.e) \div 2) ELSE p.e
    IN [p EXCEPT !.e = e1, !.le = p.le - 1]

\* Path::Path(Vertex *v)
PathOf(x) == PathAddVertex(PathEmpty, x)

\* Path::getVertices, Path::getEdges
PathVertices(p) == SubSeq(p.v, 1, p.l)
PathEdges(p) == SubSeq(p.e, 1, p.le)

\* Path::first, Path::last, Path::firstE, Path::lastE
PathFirst(p) == p.v[1]
PathLast(p) == p.v[p.l]
PathFirstE(p) == p.e[1]
PathLastE(p) == p.e[p.le]

\* Path::inPath(Edge*)
inPath(G, p, x) == \E i \in 1..p.le : p.e[i] = x \/ p.e[i] = G.E[x].adjRef

\* Path::consistent()
\* consistent that compares each edge with the next one only
consistentNeighboursOnly(G, p) ==
    ~ \E i \in 1..p.le : \E j \in 1..p.le :
          j = i + 1 /\ (incompatible(G.E[p.e[i]], G.E[p.e[j]]) \/ EdgeSame(G, p.e[i], p.e[j]))

consistent(G, p) ==
    ~ \E i \in 1..p.le : \E j \in 1..p.le :
          j > i /\ (incompatible(G.E[p.e[i]], G.E[p.e[j]]) \/ EdgeSame(G, p.e[i], p.e[j]))

\* Path::consistent(Edge*): the answer and the path as the call leaves it
\* consistentEdge that takes the candidate's vertex back but not the candidate
consistentEdgeKeepsEdge(G, p, x) ==
    IF inPath(G, p, x) THEN [ret |-> FALSE, p |-> p]
    ELSE LET p1 == PathAddVertex(PathAddEdge(p, x), G.E[x].adj)
         IN [ret |-> consistent(G, p1), p |-> PathRemoveVertex(p1)]

consistentEdge(G, p, x) ==
    IF inPath(G, p, x) THEN [ret |-> FALSE, p |-> p]
    ELSE LET p1 == PathAddVertex(PathAddEdge(p, x), G.E[x].adj)
         IN [ret |-> consistent(G, p1), p |-> PathRemoveVertex(PathRemoveEdge(p1))]

\* Path::consistent(Path*)
consistentPath(G, p, q) ==
    ~ \E i \in 1..p.le : \E j \in 1..q.le : incompatible(G.E[p.e[i]], G.E[q.e[j]])

\* Path::isCycle()
\* isCycle without the tests len() > 1 and lenE() > 1
isCycleAnyLength(G, p) ==
    IF p.l = p.le + 1 /\ PathFirst(p) = PathLast(p) THEN TRUE
    ELSE IF p.le >= 1 /\ p.l = p.le /\ G.E[PathLastE(p)].adj = PathFirst(p) THEN TRUE
    ELSE FALSE

isCycle(G, p) ==
    IF p.l > 1 /\ p.l = p.le + 1 /\ PathFirst(p) = PathLast(p) THEN TRUE
    ELSE IF p.le > 1 /\ p.l = p.le /\ G.E[PathLastE(p)].adj = PathFirst(p) THEN TRUE
    ELSE FALSE

\* isCycle(Edge*) that accepts an edge leading to any vertex of the path
isCycleEdgeAnyVertex(G, p, x) == p.l = p.le + 1 /\ \E i \in 1..p.l : G.E[x].adj = p.v[i]

\* Path::isCycle(Edge*)
isCycleEdge(G, p, x) == p.l = p.le + 1 /\ G.E[x].adj = PathFirst(p)

\* the insertion sort of Path::signature: x goes before the sorted run's
\* trailing elements it is less than
RECURSIVE SortInsert(_, _, _)
SortInsert(G, sorted, x) ==
    IF sorted # <<>> /\ EdgeLess(G, x, sorted[Len(sorted)])
    THEN SortInsert(G, SubSeq(sorted, 1, Len(sorted) - 1), x) \o <<sorted[Len(sorted)]>>
    ELSE sorted \o <<x>>

RECURSIVE SortEdges(_, _, _)
SortEdges(G, edges, k) ==
    IF k = 0 THEN <<>> ELSE SortInsert(G, SortEdges(G, edges, k - 1), edges[k])

RECURSIVE ConcatLabels(_, _)
ConcatLabels(G, edges) ==
    IF edges = <<>> THEN "" ELSE G.E[Head(edges)].label \o ConcatLabels(G, Tail(edges))

\* Path::signature
signature(G, p) == ConcatLabels(G, SortEdges(G, PathEdges(p), p.le))

(***************************************************************************)
(* Iteration over the vertices of a graph (Graph::iterator)                *)
(***************************************************************************)
\* the elements of a finite set of integers in ascending order
RECURSIVE Ascending(_)
Ascending(S) ==
    IF S = {} THEN <<>>
    ELSE LET x == CHOOSE y \in S : \A z \in S : y <= z
         IN <<x>> \o Ascending(S \ {x})

\* Graph::_begin(part, family) and operator++: the vertices the iterator visits
\* (part = -1: any part, family = -1: any family)
Visit(G, part, family) ==
    Ascending({id \in Live(G) : /\ id < G.maxn
                                /\ (part = -1 \/ part = G.vertices[id].part)
                                /\ (family = -1 \/ family = G.vertices[id].family)})

(***************************************************************************)
(* Cycle enumeration: CyclesGraph::buildCyclesGraph(Graph *ag, int len)    *)
(* (paths-cycles.cpp).  A forward_list is a sequence, its front first.     *)
(***************************************************************************)
\* the loop "for (auto e : *p->last())" of round i on path p, es the records still
\* to try: the paths pushed to the front of newlist, the last pushed first
RECURSIVE TryEdges(_, _, _, _, _)
TryEdges(G, p, es, i, len) ==
    IF es = <<>> THEN <<>>
    ELSE LET x == Head(es)
             c == consistentEdge(G, p, x)
             cycle == isCycleEdge(G, c.p, x)
             pushed == IF ~c.ret THEN <<>>
                       ELSE IF i < len - 1 /\ ~cycle
                            THEN <<PathAddEdge(PathAddVertex(c.p, G.E[x].adj), x)>>
                       ELSE IF i = len - 1 /\ cycle /\ EdgeGreater(G, x, PathFirstE(c.p))
                            THEN <<PathAddEdge(c.p, x)>>
                       ELSE <<>>
         IN TryEdges(G, c.p, Tail(es), i, len) \o pushed

\* the loop "for (auto p : *list)" of round i: newlist when the loop ends
RECURSIVE Round(_, _, _, _)
Round(G, list, i, len) ==
    IF list = <<>> THEN <<>>
    ELSE Round(G, Tail(list), i, len)
         \o TryEdges(G, Head(list), G.vertices[PathLast(Head(list))].edges, i, len)

\* the loop "for (int i = 0; i < len; i++)" from round i on
RECURSIVE Rounds(_, _, _, _)
Rounds(G, list, i, len) ==
    IF i >= len THEN list ELSE Rounds(G, Round(G, list, i, len), i + 1, len)

\* Dedup that keeps every cycle of the list
DedupKeepsEvery(G, list, st) ==
    [sigs |-> st.sigs \cup {signature(G, list[i]) : i \in 1..Len(list)},
     cycles |-> [i \in 1..Len(list) |-> list[Len(list) + 1 - i]] \o st.cycles]

\* the loop "for (auto c : *list)": st is [sigs: cycle_signatures, cycles: the cycles list]
RECURSIVE Dedup(_, _, _)
Dedup(G, list, st) ==
    IF list = <<>> THEN st
    ELSE LET c == Head(list)
             sign == signature(G, c)
         IN IF sign \notin st.sigs
            THEN Dedup(G, Tail(list), [sigs |-> st.sigs \cup {sign}, cycles |-> <<c>> \o st.cycles])
            ELSE Dedup(G, Tail(list), st)

\* the loop over the start vertices
RECURSIVE FromEach(_, _, _, _)
FromEach(G, starts, len, st) ==
    IF starts = <<>> THEN st
    ELSE FromEach(G, Tail(starts), len,
                  Dedup(G, Rounds(G, <<PathOf(Head(starts))>>, 0, len), st))

\* the cycles list buildCyclesGraph(ag, len) hands to buildCyclesGraph(ag, cycles)
EnumerateCycles(G, len) ==
    IF G.n < 1 \/ len < 2 THEN <<>>
    ELSE LET part == G.vertices[Head(Visit(G, -1, -1))].part
         IN FromEach(G, Visit(G, part, -1), len, [sigs |-> {}, cycles |-> <<>>]).cycles

(***************************************************************************)
(* The Paths on the heap.  A heap is [count, owned]: count[i] is the       *)
(* number of times the i-th Path allocated with new has been deleted, and  *)
(* owned[k] is the Path that the k-th entry of the cycles list points to.  *)
(***************************************************************************)
NoHeap == [count |-> <<>>, owned |-> <<>>]

\* new Path(...), n times
New(count, n) == count \o [k \in 1..n |-> 0]

\* the Paths those n allocations return
Fresh(count, n) == [k \in 1..n |-> Len(count) + k]

\* delete p, for every p of the sequence ids
Delete(count, ids) ==
    [i \in 1..Len(count) |-> count[i] + Cardinality({k \in 1..Len(ids) : ids[k] = i})]

\* the loop "for (int i = 0; i < len; i++)" from round i on, with the heap:
\* each round allocates the Paths of newlist and deletes those of list
RECURSIVE RoundsHeap(_, _, _, _, _, _)
RoundsHeap(G, list, ids, i, len, count) ==
    IF i >= len THEN [list |-> list, ids |-> ids, count |-> count]
    ELSE LET newlist == Round(G, list, i, len)
             n == Len(newlist)
         IN RoundsHeap(G, newlist, Fresh(count, n), i + 1, len, Delete(New(count, n), ids))

\* the loop "for (auto c : *list)" with the heap: a cycle whose signature is
\* new goes to the cycles list, any other is deleted; st is [sigs, owned, count]
RECURSIVE DedupHeap(_, _, _, _)
DedupHeap(G, list, ids, st) ==
    IF list = <<>> THEN st
    ELSE LET sign == signature(G, Head(list))
         IN IF sign \notin st.sigs
            THEN DedupHeap(G, Tail(list), Tail(ids),
                           [sigs |-> st.sigs \cup {sign}, owned |-> <<Head(ids)>> \o st.owned,
                            count |-> st.count])
            ELSE DedupHeap(G, Tail(list), Tail(ids),
                           [sigs |-> st.sigs, owned |-> st.owned,
                            count |-> Delete(st.count, <<Head(ids)>>)])

\* the loop over the start vertices with the heap: list->push_front(new Path(v))
RECURSIVE FromEachHeap(_, _, _, _)
FromEachHeap(G, starts, len, st) ==
    IF starts = <<>> THEN st
    ELSE LET r == RoundsHeap(G, <<PathOf(Head(starts))>>, Fresh(st.count, 1), 0, len,
                             New(st.count, 1))
         IN FromEachHeap(G, Tail(starts), len,
                         DedupHeap(G, r.list, r.ids,
                                   [sigs |-> st.sigs, owned |-> st.owned, count |-> r.count]))

\* the heap buildCyclesGraph(ag, len) leaves
EnumerateHeap(G, len) ==
    IF G.n < 1 \/ len < 2 THEN NoHeap
    ELSE LET part == G.vertices[Head(Visit(G, -1, -1))].part
             st == FromEachHeap(G, Visit(G, part, -1), len,
                                [sigs |-> {}, owned |-> <<>>, count |-> <<>>])
         IN [count |-> st.count, owned |-> st.owned]

\* CyclesGraph::~CyclesGraph: delete the data of every vertex
DestroyHeap(CG, H) ==
    [H EXCEPT !.count = Delete(H.count, [k \in 1..Len(Visit(CG, -1, -1)) |->
                                            H.owned[CG.vertices[Visit(CG, -1, -1)[k]].data]])]

(***************************************************************************)
(* Conflict graph: CyclesGraph::buildCyclesGraph(Graph *ag, cycles)        *)
(***************************************************************************)
\* AssocLists that does not leave out the key skip
AssocListsAllKeys(assoc, a, skip) ==
    LET keys == Ascending({k[2] : k \in {d \in DOMAIN assoc : d[1] = a}})
        RECURSIVE Cat(_)
        Cat(ks) == IF ks = <<>> THEN <<>> ELSE assoc[<<a, Head(ks)>>] \o Cat(Tail(ks))
    IN Cat(keys)

\* associations[a]: the lists of the map in ascending key order, the key skip left out
AssocLists(assoc, a, skip) ==
    LET keys == Ascending({k[2] : k \in {d \in DOMAIN assoc : d[1] = a /\ d[2] # skip}})
        RECURSIVE Cat(_)
        Cat(ks) == IF ks = <<>> THEN <<>> ELSE assoc[<<a, Head(ks)>>] \o Cat(Tail(ks))
    IN Cat(keys)

\* associations[a][b].push_front(v)
AssocPush(assoc, a, b, v) ==
    [d \in DOMAIN assoc \cup {<<a, b>>} |->
        IF d = <<a, b>> THEN <<v>> \o (IF d \in DOMAIN assoc THEN assoc[d] ELSE <<>>)
        ELSE assoc[d]]

\* LinkAll without the test of the set added
RECURSIVE LinkAllNoSeenSet(_, _, _)
LinkAllNoSeenSet(st, v, ws) ==
    IF ws = <<>> THEN st
    ELSE LinkAllNoSeenSet([cg |-> addEdge(st.cg, v, Head(ws), NullLabel, FreshSlot(st.cg)).g,
                           added |-> st.added \cup {Head(ws)}],
                          v, Tail(ws))

\* the loop "for (auto &&w : table->second)" over the lists ws: st is [cg, added]
RECURSIVE LinkAll(_, _, _)
LinkAll(st, v, ws) ==
    IF ws = <<>> THEN st
    ELSE IF Head(ws) \notin st.added
         THEN LinkAll([cg |-> addEdge(st.cg, v, Head(ws), NullLabel, FreshSlot(st.cg)).g,
                       added |-> st.added \cup {Head(ws)}],
                      v, Tail(ws))
         ELSE LinkAll(st, v, Tail(ws))

\* the loop "for (int i = 0; i < c->lenE(); i++)" from edge i on: st is [cg, added, assoc]
RECURSIVE IndexEdges(_, _, _, _, _)
IndexEdges(G, c, v, i, st) ==
    IF i > c.le THEN st
    ELSE LET from == G.E[c.e[i]].ex1
             to == G.E[c.e[i]].ex2
         IN IF from.t = UNDEF \/ to.t = UNDEF THEN IndexEdges(G, c, v, i + 1, st)
            ELSE LET s1 == LinkAll([cg |-> st.cg, added |-> st.added], v,
                                   AssocLists(st.assoc, from.id, to.id))
                     a1 == AssocPush(st.assoc, from.id, to.id, v)
                     s2 == LinkAll(s1, v, AssocLists(a1, to.id, from.id))
                     a2 == AssocPush(a1, to.id, from.id, v)
                 IN IndexEdges(G, c, v, i + 1, [cg |-> s2.cg, added |-> s2.added, assoc |-> a2])

\* the loop "for (auto c : *cycles)" from the k-th cycle on: st is [cg, assoc]
RECURSIVE AddCycles(_, _, _, _)
AddCycles(G, cs, k, st) ==
    IF k > Len(cs) THEN st
    ELSE LET r == addVertex(st.cg, signature(G, cs[k]), 0, 0)
         IN IF r.ret = NULL THEN st      \* addVertex(label) takes an unused id: not NULL
            ELSE LET cg1 == [r.g EXCEPT !.vertices[r.ret].data = k]     \* v->setData(c)
                     s == IndexEdges(G, cs[k], r.ret, 1,
                                     [cg |-> cg1, added |-> {}, assoc |-> st.assoc])
                 IN AddCycles(G, cs, k + 1, [cg |-> s.cg, assoc |-> s.assoc])

\* CyclesGraph::CyclesGraph(ag, label, len) up to the call of buildCyclesGraph(ag, len)
NewCyclesGraph(G) == NewGraph(G.n)

\* buildCyclesGraph(ag, cycles) on the CyclesGraph object CG
buildConflictGraph(CG, G, cs) == AddCycles(G, cs, 1, [cg |-> CG, assoc |-> <<>>]).cg

(***************************************************************************)
(* The store: a driver calling the Graph methods on g in any order.        *)
(***************************************************************************)
NoGraph == NewGraph(0)
NoOp == [name |-> "new", ret |-> NULL]
Call(name, a, b, ret) == [name |-> name, ret |-> ret]

Parts == {0}
EdgeLabels == {"a"}
\* the extremity pairs the driver of the store runs gives to setExtremities
StoreExtremities ==
    {<<Extremity(1, TAIL), Extremity(2, TAIL)>>}

\* the handles addEdge returned for the edges of G
Handles(G) == {h \in Records(G) : h % 2 = 0}

Init ==
    /\ g = NewGraph(MaxV)
    /\ cg = NoGraph
    /\ cycles = <<>>
    /\ built = 0
    /\ copy = NoGraph
    /\ path = PathEmpty
    /\ op = NoOp
    /\ crashed = FALSE
    /\ heap = NoHeap

AddVertex(part) ==
    /\ ~crashed
    /\ g.n < MaxV
    /\ LET r == addVertex(g, NullLabel, part, 0)
       IN /\ g' = r.g
          /\ op' = Call("addVertex", part, NULL, r.ret)
    /\ UNCHANGED <<cg, cycles, built, copy, path, crashed, heap>>

AddEdge(v1, v2, label) ==
    /\ ~crashed
    /\ g.m < MaxE
    /\ LET r == addEdge(g, v1, v2, label, FreshSlot(g))
       IN /\ g' = r.g
          /\ op' = Call("addEdge", v1, v2, r.ret)
    /\ UNCHANGED <<cg, cycles, built, copy, path, crashed, heap>>

SetExtremities(e, x) ==
    /\ ~crashed
    /\ g' = setExtremities(g, e, x[1].id, x[1].t, x[2].id, x[2].t)
    /\ op' = Call("setExtremities", e, NULL, NULL)
    /\ UNCHANGED <<cg, cycles, built, copy, path, crashed, heap>>

SetSibling(e, s) ==
    /\ ~crashed
    /\ g' = setSibling(g, e, s)
    /\ op' = Call("setSibling", e, s, NULL)
    /\ UNCHANGED <<cg, cycles, built, copy, path, crashed, heap>>

RemoveEdge(e) ==
    /\ ~crashed
    /\ \/ /\ g' = removeEdge(g, e)
          /\ crashed' = FALSE
       \/ /\ DanglingSibling(g, e)
          /\ g' = g
          /\ crashed' = TRUE
    /\ op' = Call("removeEdge", e, NULL, NULL)
    /\ UNCHANGED <<cg, cycles, built, copy, path, heap>>

RemoveVertex(v) ==
    /\ ~crashed
    /\ \/ /\ g' = removeVertex(g, v)
          /\ crashed' = FALSE
       \/ /\ DanglingIncident(g, v)
          /\ g' = g
          /\ crashed' = TRUE
    /\ op' = Call("removeVertex", v, NULL, NULL)
    /\ UNCHANGED <<cg, cycles, built, copy, path, heap>>

Next ==
    \/ \E part \in Parts : AddVertex(part)
    \/ \E v1, v2 \in Live(g) \cup {NULL}, label \in EdgeLabels : (v1 <= v2 \/ v2 = NULL) /\ AddEdge(v1, v2, label)
    \/ \E e \in Handles(g), x \in StoreExtremities : SetExtremities(e, x)
    \/ \E e \in Handles(g) : \E s \in (Handles(g) \ {e}) \cup {NULL} : SetSibling(e, s)
    \/ \E e \in Records(g) \cup {NULL} : RemoveEdge(e)
    \/ \E v \in Live(g) \cup {NULL} : RemoveVertex(v)

Spec == Init /\ [][Next]_vars

(***************************************************************************)
(* The enumeration runs: a driver builds an adjacency graph with the Graph *)
(* methods and constructs a CyclesGraph from it.                           *)
(***************************************************************************)
\* an edge label of 99 characters (labels hold up to GRAPH_MAX_LABEL)
LongLabel == "ggggggggggggggggggggggggggggggggggggggggggggggggggggggggggggggggggggggggggggggggggggggggggggggggggg"

\* the edges a driver may add: endpoints, the extremities given to
\* setExtremities (<<>>: setExtremities is not called) and the label
Catalogue == <<
    [v1 |-> 0, v2 |-> 1, ex |-> <<Extremity(1, TAIL), Extremity(1, TAIL)>>, label |-> "a"],
    [v1 |-> 0, v2 |-> 1, ex |-> <<Extremity(2, TAIL), Extremity(2, TAIL)>>, label |-> "b"],
    [v1 |-> 0, v2 |-> 1, ex |-> <<Extremity(0, HEAD), Extremity(2, HEAD)>>, label |-> "c"],
    [v1 |-> 0, v2 |-> 1, ex |-> <<>>, label |-> "d"],
    [v1 |-> 1, v2 |-> 2, ex |-> <<Extremity(3, TAIL), Extremity(3, TAIL)>>, label |-> "e"],
    [v1 |-> 1, v2 |-> 2, ex |-> <<Extremity(4, TAIL), Extremity(4, TAIL)>>, label |-> "f"],
    [v1 |-> 0, v2 |-> 2, ex |-> <<Extremity(5, TAIL), Extremity(5, TAIL)>>, label |-> LongLabel],
    [v1 |-> 0, v2 |-> 1, ex |-> <<Extremity(1, TAIL), Extremity(2, HEAD)>>, label |-> "x"],
    [v1 |-> 0, v2 |-> 1, ex |-> <<Extremity(1, HEAD), Extremity(2, TAIL)>>, label |-> "y"],
    [v1 |-> 0, v2 |-> 1, ex |-> <<Extremity(2, TAIL), Extremity(1, TAIL)>>, label |-> "p"] >>

\* the parts the driver gives to the vertices 0, 1, 2
PartAssignments == { <<0, 0, 0>>, <<0, 1, 0>> }

\* ag->addEdge(v1, v2, label) followed by setExtremities on the returned record
DriverAddEdge(G, c) ==
    LET r == addEdge(G, c.v1, c.v2, c.label, FreshSlot(G))
    IN IF c.ex = <<>> THEN r.g
       ELSE setExtremities(r.g, r.ret, c.ex[1].id, c.ex[1].t, c.ex[2].id, c.ex[2].t)

RECURSIVE DriverAddEdges(_, _)
DriverAddEdges(G, cs) ==
    IF cs = <<>> THEN G ELSE DriverAddEdges(DriverAddEdge(G, Catalogue[Head(cs)]), Tail(cs))

RECURSIVE DriverAddVertices(_, _)
DriverAddVertices(G, parts) ==
    IF parts = <<>> THEN G
    ELSE DriverAddVertices(addVertex(G, NullLabel, Head(parts), 0).g, Tail(parts))

\* the adjacency graphs of the runs: no vertex at all, or three vertices and
\* at most MaxCat edges of the catalogue added in catalogue order
AdjacencyGraphs ==
    {NewGraph(0)} \cup
    { DriverAddEdges(DriverAddVertices(NewGraph(0), parts), Ascending(S)) :
        parts \in PartAssignments,
        S \in {T \in SUBSET (1..Len(Catalogue)) : Cardinality(T) <= MaxCat} }

InitCycles ==
    /\ g \in AdjacencyGraphs
    /\ cg = NoGraph
    /\ cycles = <<>>
    /\ built = 0
    /\ copy = NoGraph
    /\ path = PathEmpty
    /\ op = NoOp
    /\ crashed = FALSE
    /\ heap = NoHeap

\* new CyclesGraph(g, label, len)
Construct(len) ==
    /\ built = 0
    /\ cycles' = EnumerateCycles(g, len)
    /\ cg' = buildConflictGraph(NewCyclesGraph(g), g, cycles')
    /\ built' = len + 1
    /\ heap' = EnumerateHeap(g, len)
    /\ UNCHANGED <<g, copy, path, op, crashed>>

NextCycles == \E len \in 0..MaxLen : Construct(len)

SpecCycles == InitCycles /\ [][NextCycles]_vars

(***************************************************************************)
(* The extremity runs: two vertices joined by two edges "a" and "b" whose   *)
(* extremities a driver sets to genes 0..MaxGene.                          *)
(***************************************************************************)
Extremities == {Extremity(id, t) : id \in 0..MaxGene, t \in ExtremityTypes}
DefinedExtremities == {x \in Extremities : x.t # UNDEF}

TwoEdges ==
    LET G0 == DriverAddVertices(NewGraph(0), <<0, 0>>)
        G1 == addEdge(G0, 0, 1, "a", FreshSlot(G0)).g
    IN addEdge(G1, 0, 1, "b", FreshSlot(G1)).g

InitEdge ==
    /\ g = TwoEdges
    /\ cg = NoGraph
    /\ cycles = <<>>
    /\ built = 0
    /\ copy = NoGraph
    /\ path = PathEmpty
    /\ op = NoOp
    /\ crashed = FALSE
    /\ heap = NoHeap

\* e->setExtremities(ex1, ex2) on any record e
SetAnyExtremities(e, ex1, ex2) ==
    /\ g' = setExtremities(g, e, ex1.id, ex1.t, ex2.id, ex2.t)
    /\ op' = Call("setExtremities", e, NULL, NULL)
    /\ UNCHANGED <<cg, cycles, built, copy, path, crashed, heap>>

\* edge "a" takes any extremities, edge "b" defined ones, each through either record
NextEdge ==
    \/ \E e \in {0, 1}, ex1, ex2 \in Extremities : SetAnyExtremities(e, ex1, ex2)
    \/ \E e \in {2, 3}, ex1, ex2 \in DefinedExtremities : SetAnyExtremities(e, ex1, ex2)

SpecEdge == InitEdge /\ [][NextEdge]_vars

(***************************************************************************)
(* Closed walks of the adjacency graph, defined from the records alone     *)
(***************************************************************************)
\* the vertex whose adjacency list holds record r
Owner(G, r) == G.E[G.E[r].adjRef].adj

\* the logical edges (pairs of mirror records) of a sequence of records
LogicalEdges(G, es) == {{es[i], G.E[es[i]].adjRef} : i \in 1..Len(es)}

\* the sequences of k records that walk from vertex s along consecutive edges
RECURSIVE WalksFrom(_, _, _)
WalksFrom(G, s, k) ==
    IF k = 0 THEN {<<>>}
    ELSE UNION {{Append(w, r) : r \in {x \in Records(G) :
                                  Owner(G, x) = IF w = <<>> THEN s ELSE G.E[w[Len(w)]].adj}} :
                w \in WalksFrom(G, s, k - 1)}

ClosedWalks(G, k) ==
    UNION {{w \in WalksFrom(G, s, k) : k > 0 /\ G.E[w[k]].adj = s} : s \in Live(G)}

\* a closed walk through pairwise distinct vertices and pairwise distinct logical edges
SimpleWalk(G, w) ==
    /\ Cardinality({Owner(G, w[i]) : i \in 1..Len(w)}) = Len(w)
    /\ Cardinality(LogicalEdges(G, w)) = Len(w)

\* no two edges of the walk are incompatible
ConsistentWalk(G, w) ==
    \A i, j \in 1..Len(w) : ~incompatible(G.E[w[i]], G.E[w[j]])

\* the part the enumeration starts from: that of the live vertex of lowest id
StartPart(G) == G.vertices[CHOOSE v \in Live(G) : \A u \in Live(G) : v <= u].part

\* the len a CyclesGraph was constructed with
BuiltLen == built - 1

(***************************************************************************)
(* Properties of the cycle enumeration                                     *)
(***************************************************************************)
\* C1: once a CyclesGraph is built with len >= 2, every consistent simple
\* cycle of exactly len edges through a vertex of the starting part has a
\* Path with the same logical edges in the cycle list.
C1_EveryCycleListed ==
    BuiltLen >= 2 =>
        \A w \in ClosedWalks(g, BuiltLen) :
            ( /\ SimpleWalk(g, w)
              /\ ConsistentWalk(g, w)
              /\ \E i \in 1..Len(w) : g.vertices[Owner(g, w[i])].part = StartPart(g) )
            => \E k \in 1..Len(cycles) :
                   LogicalEdges(g, PathEdges(cycles[k])) = LogicalEdges(g, w)

\* C2: no two Paths of the cycle list have the same set of logical edges.
C2_NoCycleTwice ==
    \A j, k \in 1..Len(cycles) :
        j # k => LogicalEdges(g, PathEdges(cycles[j])) # LogicalEdges(g, PathEdges(cycles[k]))

\* C3: every Path of the cycle list of a CyclesGraph built with len >= 2 has
\* len edges and len vertices, its i-th edge leaves its i-th vertex and
\* reaches the next one, the last edge reaches the first vertex, and
\* consistent() holds of it; and when the graph has no closed walk of len
\* edges the cycle list is empty and the conflict graph has no vertex.
C3_ListedPathsAreCycles ==
    BuiltLen >= 2 =>
        /\ \A k \in 1..Len(cycles) :
              LET p == cycles[k]
              IN /\ p.le = BuiltLen
                 /\ p.l = BuiltLen
                 /\ \A i \in 1..p.le :
                       /\ p.e[i] \in Records(g)
                       /\ Owner(g, p.e[i]) = p.v[i]
                       /\ g.E[p.e[i]].adj = p.v[(i % p.le) + 1]
                 /\ consistent(g, p)
        /\ ClosedWalks(g, BuiltLen) = {} => (cycles = <<>> /\ cg.n = 0 /\ Live(cg) = {})

C3_Witness ==
    /\ BuiltLen = 3
    /\ Len(cycles) >= 2

\* C4: in every Path of the cycle list no vertex occurs twice.
C4_CyclesAreSimple ==
    \A k \in 1..Len(cycles) :
        \A i, j \in 1..cycles[k].l : i # j => cycles[k].v[i] # cycles[k].v[j]

(***************************************************************************)
(* Properties of the conflict graph                                        *)
(***************************************************************************)
\* some record in the adjacency list of u leads to w
Adjacent(G, u, w) == \E i \in 1..Len(G.vertices[u].edges) : G.E[G.vertices[u].edges[i]].adj = w

\* the Path stored in conflict-graph vertex u
StoredPath(u) == cycles[cg.vertices[u].data]

\* the records of a path neither of whose extremities is undefined
DefinedEdges(G, p) == {p.e[i] : i \in {j \in 1..p.le : G.E[p.e[j]].ex1.t # UNDEF /\ G.E[p.e[j]].ex2.t # UNDEF}}

\* C5 as stated: two distinct cycle-vertices are joined exactly when
\* Path::consistent(Path*) is false of the Paths they store.
C5_EdgeIffPathsIncompatible ==
    \A u, w \in Live(cg) :
        u # w => (Adjacent(cg, u, w) <=> ~consistentPath(g, StoredPath(u), StoredPath(w)))

\* C5 amended: two distinct cycle-vertices are joined exactly when an edge
\* of one Path and an edge of the other, both with two defined extremities,
\* are incompatible.
C5_EdgeIffDefinedEdgesIncompatible ==
    \A u, w \in Live(cg) :
        u # w => ( Adjacent(cg, u, w) <=>
                   \E x \in DefinedEdges(g, StoredPath(u)), y \in DefinedEdges(g, StoredPath(w)) :
                       incompatible(g.E[x], g.E[y]) )

\* a conflict graph with a joined pair, and a pair left apart although an
\* edge with an undefined extremity makes their Paths incompatible
C5_Witness ==
    /\ \E u, w \in Live(cg) : u # w /\ Adjacent(cg, u, w)
    /\ \E u, w \in Live(cg) :
          u # w /\ ~Adjacent(cg, u, w) /\ ~consistentPath(g, StoredPath(u), StoredPath(w))

PathExtremities(G, p) == UNION {{G.E[p.e[i]].ex1, G.E[p.e[i]].ex2} : i \in 1..p.le}

\* C7: two cycle-vertices whose Paths are distinct cycles (not the same
\* set of logical edges) sharing a logical edge are joined, and a cycle-vertex whose Path shares no extremity with the Path
\* of any other has no incident edge.
C7_SharedEdgeJoins ==
    /\ \A u, w \in Live(cg) :
          ( /\ LogicalEdges(g, PathEdges(StoredPath(u))) # LogicalEdges(g, PathEdges(StoredPath(w)))
            /\ LogicalEdges(g, PathEdges(StoredPath(u)))
               \cap LogicalEdges(g, PathEdges(StoredPath(w))) # {} )
          => Adjacent(cg, u, w)
    /\ \A u \in Live(cg) :
          (\A w \in Live(cg) \ {u} :
              \A a \in PathExtremities(g, StoredPath(u)), b \in PathExtremities(g, StoredPath(w)) :
                  ~ExtEq(a, b))
          => cg.vertices[u].edges = <<>>

(***************************************************************************)
(* Properties of Edge::incompatible                                        *)
(***************************************************************************)
\* C8 as stated: incompatible is true of two edge records exactly when one
\* but not both of ex1 = ex1, ex2 = ex2 holds, or one but not both of
\* ex1 = ex2, ex2 = ex1 holds, with Extremity equality (same gene and kind,
\* or both undefined).
C8_IncompatibleByExtremity ==
    \A x, y \in Records(g) :
        LET a == g.E[x].ex1  b == g.E[x].ex2  c == g.E[y].ex1  d == g.E[y].ex2
        IN incompatible(g.E[x], g.E[y]) <=>
               ((ExtEq(a, c) # ExtEq(b, d)) \/ (ExtEq(a, d) # ExtEq(b, c)))

\* C8 amended: the same with equality of the gene ids alone, whatever the
\* kinds (an undefined extremity counts with the id it stores).
C8_IncompatibleByGeneId ==
    \A x, y \in Records(g) :
        LET a == g.E[x].ex1.id  b == g.E[x].ex2.id  c == g.E[y].ex1.id  d == g.E[y].ex2.id
        IN incompatible(g.E[x], g.E[y]) <=>
               (((a = c) /\ (b # d)) \/ ((a # c) /\ (b = d))
                \/ ((a = d) /\ (b # c)) \/ ((a # d) /\ (b = c)))

\* two edges found incompatible whose first extremities are the tail and
\* the head of the same gene
C8_Witness ==
    /\ op.name = "setExtremities"
    /\ \E x, y \in Records(g) :
          /\ incompatible(g.E[x], g.E[y])
          /\ g.E[x].ex1.id = g.E[y].ex1.id
          /\ g.E[x].ex1.t = TAIL /\ g.E[y].ex1.t = HEAD

\* C9: incompatible gives the same answer with its two edge records
\* exchanged, and is false of every record and its mirror.
C9_SymmetricAndMirrorCompatible ==
    /\ \A x, y \in Records(g) : incompatible(g.E[x], g.E[y]) = incompatible(g.E[y], g.E[x])
    /\ \A x \in Records(g) : ~incompatible(g.E[x], g.E[g.E[x].adjRef])

\* an edge given two different genes through its odd record, incompatible
\* with the other edge
C9_Witness ==
    /\ op.name = "setExtremities"
    /\ \E x, y \in Records(g) :
          /\ g.E[x].ex1.id # g.E[x].ex2.id
          /\ g.E[x].ex1.t # UNDEF
          /\ incompatible(g.E[x], g.E[y])

(***************************************************************************)
(* Properties of the store                                                 *)
(***************************************************************************)
\* C10: removeEdge on a record e of a live edge removes e and its mirror and
\* nothing else from the records, leaves the other records as they were,
\* takes e out of its owner's adjacency list and the mirror out of the other
\* endpoint's (one degree less each), changes no other vertex field and no
\* other vertex, leaves the vertex counters alone and lowers m by one.
C10_RemoveEdgeFrame ==
    [][ \A e \in Records(g) :
          RemoveEdge(e) =>
            LET r == g.E[e].adjRef
            IN /\ Records(g') = Records(g) \ {e, r}
               /\ \A h \in Records(g') : g'.E[h] = g.E[h]
               /\ g'.m = g.m - 1
               /\ Live(g') = Live(g)
               /\ \A v \in Live(g) :
                     g'.vertices[v] =
                        IF v = Owner(g, e)
                        THEN [g.vertices[v] EXCEPT !.edges = SelectSeq(g.vertices[v].edges, LAMBDA h : h # e),
                                                   !.degree = g.vertices[v].degree - 1]
                        ELSE IF v = Owner(g, r)
                        THEN [g.vertices[v] EXCEPT !.edges = SelectSeq(g.vertices[v].edges, LAMBDA h : h # r),
                                                   !.degree = g.vertices[v].degree - 1]
                        ELSE g.vertices[v]
               /\ g'.n = g.n /\ g'.maxn = g.maxn /\ g'.lastVid = g.lastVid
               /\ g'.npart = g.npart /\ g'.fsize = g.fsize
      ]_vars

\* C11: removeVertex on a live vertex v leaves no record that leads to v
\* in any live vertex, lowers m by the former degree of v and n by one and
\* empties the slot of v; removeVertex(NULL) changes nothing.
C11_RemoveVertexEffect ==
    [][ /\ \A v \in Live(g) :
              RemoveVertex(v) =>
                /\ v \notin Live(g')
                /\ \A u \in Live(g') : \A i \in 1..Len(g'.vertices[u].edges) :
                       g'.E[g'.vertices[u].edges[i]].adj # v
                /\ \A r \in Records(g') : g'.E[r].adj # v
                /\ g'.m = g.m - g.vertices[v].degree
                /\ g'.n = g.n - 1
        /\ RemoveVertex(NULL) => g' = g
      ]_vars

(***************************************************************************)
(* The id runs: vertices are added at explicit ids and edges are added by  *)
(* id, with ids inside and outside the vertex vector, and by pointer.      *)
(***************************************************************************)
Families == {0, 1}

\* the ids tried by the id form of addEdge: one below and two past the vector
IdRange(G) == -1..(G.maxn + 1)

\* what a read of vertices[id] may yield when it falls outside the vector
Reads(G, id) == IF id \in 0..(G.maxn - 1) THEN {NULL} ELSE WildPointers \cup {NULL}

AddVertexId(id, part, family) ==
    /\ ~crashed
    /\ (g.n < MaxV \/ id \in Live(g))
    /\ LET r == addVertexId(g, id, NullLabel, part, family)
       IN /\ g' = r.g
          /\ op' = Call("addVertexId", id, NULL, r.ret)
    /\ UNCHANGED <<cg, cycles, built, copy, path, crashed, heap>>

AddEdgeId(id1, id2, label, w1, w2) ==
    /\ ~crashed
    /\ g.m < MaxE
    /\ IF WildDeref(g, id1, id2, w1, w2)
       THEN /\ g' = g
            /\ op' = Call("addEdgeId", id1, id2, NULL)
            /\ crashed' = TRUE
       ELSE LET r == addEdgeId(g, id1, id2, label, FreshSlot(g), w1, w2)
            IN /\ g' = r.g
               /\ op' = Call("addEdgeId", id1, id2, r.ret)
               /\ crashed' = FALSE
    /\ UNCHANGED <<cg, cycles, built, copy, path, heap>>

NextIds ==
    \/ \E id \in 0..MaxV, family \in Families : AddVertexId(id, 0, family)
    \/ \E id1, id2 \in IdRange(g) : \E w1 \in Reads(g, id1) : \E w2 \in Reads(g, id2) : AddEdgeId(id1, id2, "a", w1, w2)
    \/ \E v1, v2 \in Live(g) \cup {NULL}, label \in EdgeLabels : AddEdge(v1, v2, label)

SpecIds == Init /\ [][NextIds]_vars

\* what the claim says of addEdge on endpoints v1 and v2 (pointers or ids),
\* from graph G to graph G2 with return value ret
AddEdgePost(G, G2, ret, v1, v2) ==
    IF v1 = v2 \/ v1 \notin Live(G) \/ v2 \notin Live(G)
    THEN ret = NULL /\ G2 = G
    ELSE /\ ret # NULL
         /\ G2.m = G.m + 1
         /\ Cardinality(Records(G2)) = Cardinality(Records(G)) + 2
         /\ Len(G2.vertices[v1].edges) = Len(G.vertices[v1].edges) + 1
         /\ Len(G2.vertices[v2].edges) = Len(G.vertices[v2].edges) + 1
         /\ Head(G2.vertices[v1].edges) = ret
         /\ G2.E[ret].adj = v2
         /\ G2.E[G2.E[ret].adjRef].adj = v1
         /\ Head(G2.vertices[v2].edges) = G2.E[ret].adjRef

\* C12: addEdge, by pointer or by id and for every id value, returns null and
\* leaves the graph unchanged exactly when the endpoints are the same vertex
\* or one of them is null or not live; otherwise it returns the new edge,
\* raises m by one and adds one record to each endpoint.
C12_AddEdgeFailsExactly ==
    [][ /\ \A id1, id2 \in IdRange(g) : \A w1 \in Reads(g, id1) : \A w2 \in Reads(g, id2) :
              AddEdgeId(id1, id2, "a", w1, w2) =>
                  ~crashed' /\ AddEdgePost(g, g', op'.ret, id1, id2)
        /\ \A v1, v2 \in Live(g) \cup {NULL} :
              AddEdge(v1, v2, "a") =>
                  ~crashed' /\ AddEdgePost(g, g', op'.ret, v1, v2)
      ]_vars

\* C13: addVertex with an explicit id that is occupied returns null and leaves
\* the whole graph as it was: n, the per-part and per-family counts, lastVid
\* and the vertex at that id with its label and edges.
C13_OccupiedIdRejected ==
    [][ \A id \in Live(g) : \A family \in Families :
            AddVertexId(id, 0, family) =>
                /\ op'.ret = NULL
                /\ g'.n = g.n /\ g'.npart = g.npart /\ g'.fsize = g.fsize
                /\ g'.lastVid = g.lastVid
                /\ g'.vertices[id] = g.vertices[id]
                /\ g' = g
      ]_vars

\* an occupied id was just refused while the vertices carry edges
C13_Witness ==
    /\ op.name = "addVertexId"
    /\ op.ret = NULL
    /\ g.n > 0
    /\ \A v \in Live(g) : g.vertices[v].edges # <<>>

(***************************************************************************)
(* Removal by extremities: Graph::removeEdge(Extremity, Extremity)         *)
(***************************************************************************)
\* Vertex::setExtremities
VertexSetExtremities(G, v, id1, t1, id2, t2) ==
    [G EXCEPT !.vertices[v].ex1 = Extremity(id1, t1), !.vertices[v].ex2 = Extremity(id2, t2)]

\* Vertex::hasExtremity, on the Vertex record vx
hasExtremity(vx, ex) == ExtEq(ex, vx.ex1) \/ ExtEq(ex, vx.ex2)

\* the test of the inner loop of removeEdge(ex1, ex2), on the Edge record x
MatchesPair(x, ex1, ex2) ==
    \/ (ExtEq(x.ex1, ex1) /\ ExtEq(x.ex2, ex2))
    \/ (ExtEq(x.ex1, ex2) /\ ExtEq(x.ex2, ex1))

\* the inner loop over the records es of one vertex; st.crash tells whether a
\* removeEdge went through a dangling sibling pointer
RECURSIVE RemoveMatching(_, _, _, _)
RemoveMatching(st, es, ex1, ex2) ==
    IF es = <<>> THEN st
    ELSE LET e == Head(es)
         IN IF MatchesPair(st.g.E[e], ex1, ex2)
            THEN RemoveMatching([g |-> removeEdge(st.g, e),
                                 crash |-> st.crash \/ DanglingSibling(st.g, e)],
                                Tail(es), ex1, ex2)
            ELSE RemoveMatching(st, Tail(es), ex1, ex2)

\* the outer loop "for (auto v : *this)" over the vertices vs still to visit
RECURSIVE ScanVertices(_, _, _, _)
ScanVertices(st, vs, ex1, ex2) ==
    IF vs = <<>> THEN st
    ELSE LET vx == st.g.vertices[Head(vs)]
         IN IF hasExtremity(vx, ex1) \/ hasExtremity(vx, ex2)
            THEN ScanVertices(RemoveMatching(st, vx.edges, ex1, ex2), Tail(vs), ex1, ex2)
            ELSE ScanVertices(st, Tail(vs), ex1, ex2)

\* Graph::removeEdge(Extremity ex1, Extremity ex2)
removeEdgeEx(G, ex1, ex2) ==
    ScanVertices([g |-> G, crash |-> FALSE], Visit(G, -1, -1), ex1, ex2)

\* the extremities asked for, and the pairs given to vertices and to edges
\* (<<>>: setExtremities is not called)
RemoveExtremities == {Extremity(1, TAIL), Extremity(2, TAIL), Extremity(0, UNDEF)}
VertexChoices == {<<>>, <<Extremity(1, TAIL), Extremity(2, TAIL)>>}
EdgeChoices == {<<>>, <<Extremity(1, TAIL), Extremity(2, TAIL)>>, <<Extremity(2, TAIL), Extremity(1, TAIL)>>}

\* addVertex for the ids i..MaxV-1, each followed by Vertex::setExtremities when vc[i] says so
RECURSIVE DriverVertices(_, _, _)
DriverVertices(G, i, vc) ==
    IF i >= MaxV THEN G
    ELSE LET G1 == addVertex(G, NullLabel, 0, 0).g
             G2 == IF vc[i] = <<>> THEN G1
                   ELSE VertexSetExtremities(G1, i, vc[i][1].id, vc[i][1].t, vc[i][2].id, vc[i][2].t)
         IN IF G2.n = G.n THEN G2 ELSE DriverVertices(G2, i + 1, vc)

\* addEdge(0, 1) for every entry of ec, each followed by Edge::setExtremities when the entry says so
RECURSIVE DriverEdges(_, _)
DriverEdges(G, ec) ==
    IF ec = <<>> THEN G
    ELSE LET r == addEdge(G, 0, 1, "a", FreshSlot(G))
             x == Head(ec)
             G2 == IF x = <<>> THEN r.g
                   ELSE setExtremities(r.g, r.ret, x[1].id, x[1].t, x[2].id, x[2].t)
         IN IF G2.m = G.m THEN G2 ELSE DriverEdges(G2, Tail(ec))

\* the graphs a driver hands to removeEdge(ex1, ex2); with sib the first edge
\* is given the last one as its sibling and the last one is then removed
RemoveGraph(vc, ec, sib) ==
    LET G2 == DriverEdges(DriverVertices(NewGraph(MaxV), 0, vc), ec)
        last == 2 * (Len(ec) - 1)
    IN IF sib /\ Len(ec) >= 2 THEN removeEdge(setSibling(G2, 0, last), last) ELSE G2

RemoveGraphs ==
    {RemoveGraph(vc, ec, sib) :
        vc \in [0..(MaxV - 1) -> VertexChoices],
        ec \in UNION {[1..k -> EdgeChoices] : k \in 0..MaxE},
        sib \in BOOLEAN}

InitRemove ==
    /\ g \in RemoveGraphs
    /\ cg = NoGraph
    /\ cycles = <<>>
    /\ built = 0
    /\ copy = NoGraph
    /\ path = PathEmpty
    /\ op = NoOp
    /\ crashed = FALSE
    /\ heap = NoHeap

RemoveEdgeEx(ex1, ex2) ==
    /\ ~crashed
    /\ LET r == removeEdgeEx(g, ex1, ex2)
       IN \/ /\ g' = r.g
             /\ crashed' = FALSE
          \/ /\ r.crash
             /\ g' = g
             /\ crashed' = TRUE
    /\ op' = Call("removeEdgeEx", ex1, ex2, NULL)
    /\ UNCHANGED <<cg, cycles, built, copy, path, heap>>

NextRemove == \E ex1, ex2 \in RemoveExtremities : RemoveEdgeEx(ex1, ex2)

SpecRemove == InitRemove /\ [][NextRemove]_vars

\* the logical edges of G whose endpoint extremities are the unordered pair {ex1, ex2}
MatchingEdges(G, ex1, ex2) == {e \in Handles(G) : MatchesPair(G.E[e], ex1, ex2)}

\* C14: removeEdge(ex1, ex2) removes every logical edge whose endpoint
\* extremities match the unordered pair {ex1, ex2} and no other edge: afterwards
\* no live edge matches, the other edges remain and m has dropped by the number
\* of matching edges.
C14_RemovesEveryMatchingEdge ==
    [][ \A ex1, ex2 \in RemoveExtremities :
            RemoveEdgeEx(ex1, ex2) =>
                /\ ~crashed'
                /\ MatchingEdges(g', ex1, ex2) = {}
                /\ Handles(g') = Handles(g) \ MatchingEdges(g, ex1, ex2)
                /\ g'.m = g.m - Cardinality(MatchingEdges(g, ex1, ex2))
      ]_vars

(***************************************************************************)
(* The copy constructor Graph::Graph(Graph &g).  st.g is the copy under    *)
(* construction, st.crash tells whether a freed Edge record was read.      *)
(***************************************************************************)
\* the first loop: one addVertex(id, ...) per vertex of G, then its direction and extremities
RECURSIVE CopyVertices(_, _, _)
CopyVertices(C, G, vs) ==
    IF vs = <<>> THEN C
    ELSE LET v == Head(vs)
             vx == G.vertices[v]
             C1 == addVertexId(C, v, vx.label, vx.part, vx.family).g
             C2 == [C1 EXCEPT !.vertices[v].direction = vx.direction]
             C3 == VertexSetExtremities(C2, v, vx.ex1.id, vx.ex1.t, vx.ex2.id, vx.ex2.t)
         IN IF C3.n = C.n THEN C3 ELSE CopyVertices(C3, G, Tail(vs))

\* the body of the second loop for record e of vertex v
CopyEdge(st, G, v, e) ==
    LET x == G.E[e]
        C == st.g
    IN IF ~(x.adj > v) THEN st
       ELSE IF x.sibling # NULL /\ x.ex1.t = HEAD THEN st
       ELSE LET r1 == addEdgeId(C, v, x.adj, x.label, FreshSlot(C), NULL, NULL)
                C1 == setExtremities(r1.g, r1.ret, x.ex1.id, x.ex1.t, x.ex2.id, x.ex2.t)
            IN IF x.sibling = NULL THEN [st EXCEPT !.g = C1]
               ELSE IF x.sibling \notin Records(G) THEN [g |-> C1, crash |-> TRUE]
               ELSE LET sx == G.E[x.sibling]
                        r2 == addEdgeId(C1, G.E[sx.adjRef].adj, sx.adj, sx.label, FreshSlot(C1), NULL, NULL)
                        C2 == setExtremities(r2.g, r2.ret, x.ex1.id, x.ex1.t, x.ex2.id, x.ex2.t)
                        C3 == setSibling(C2, r1.ret, r2.ret)
                    IN [st EXCEPT !.g = setSibling(C3, r2.ret, r1.ret)]

\* "for (const auto e : *v)" over the records es of vertex v still to visit
RECURSIVE CopyEdgesOf(_, _, _, _)
CopyEdgesOf(st, G, v, es) ==
    IF es = <<>> \/ st.crash THEN st
    ELSE CopyEdgesOf(CopyEdge(st, G, v, Head(es)), G, v, Tail(es))

\* the second loop "for (const auto v : g)" over the vertices vs still to visit
RECURSIVE CopyEdges(_, _, _)
CopyEdges(st, G, vs) ==
    IF vs = <<>> \/ st.crash THEN st
    ELSE CopyEdges(CopyEdgesOf(st, G, Head(vs), G.vertices[Head(vs)].edges), G, Tail(vs))

\* Graph::Graph(Graph &g)
CopyGraph(G) ==
    CopyEdges([g |-> CopyVertices(NewGraph(G.maxn), G, Visit(G, -1, -1)), crash |-> FALSE],
              G, Visit(G, -1, -1))

\* the extremity pairs the edges of the copied graphs are given (<<>>: none)
CopyEdgeChoices ==
    {<<>>, <<Extremity(1, TAIL), Extremity(1, TAIL)>>, <<Extremity(1, HEAD), Extremity(1, HEAD)>>}

\* the graphs handed to the copy constructor; with sib the first and the last
\* edge are made siblings of each other
CopySource(vc, ec, sib) ==
    LET G2 == DriverEdges(DriverVertices(NewGraph(MaxV), 0, vc), ec)
        last == 2 * (Len(ec) - 1)
    IN IF sib /\ Len(ec) >= 2 THEN setSibling(setSibling(G2, 0, last), last, 0) ELSE G2

CopySources ==
    {CopySource(vc, ec, sib) :
        vc \in [0..(MaxV - 1) -> VertexChoices],
        ec \in UNION {[1..k -> CopyEdgeChoices] : k \in 0..MaxE},
        sib \in BOOLEAN}

InitCopy ==
    /\ g \in CopySources
    /\ cg = NoGraph
    /\ cycles = <<>>
    /\ built = 0
    /\ copy = NoGraph
    /\ path = PathEmpty
    /\ op = NoOp
    /\ crashed = FALSE
    /\ heap = NoHeap

Copy ==
    /\ ~crashed
    /\ op = NoOp
    /\ LET r == CopyGraph(g)
       IN IF r.crash THEN copy' = copy /\ crashed' = TRUE
          ELSE copy' = r.g /\ crashed' = FALSE
    /\ op' = Call("copy", NULL, NULL, NULL)
    /\ UNCHANGED <<g, cg, cycles, built, path, heap>>

NextCopy == Copy

SpecCopy == InitCopy /\ [][NextCopy]_vars

\* a logical edge h of G as seen from its two endpoints: owner, other
\* endpoint, extremities from the owner's side, label
EdgeShape(G, h) ==
    {<<G.E[G.E[r].adjRef].adj, G.E[r].adj, G.E[r].ex1, G.E[r].ex2, G.E[r].label>> :
        r \in {h, G.E[h].adjRef}}

\* TRUE when the logical edge a of G has the logical edge b as its sibling
Siblings(G, a, b) == G.E[a].sibling # NULL /\ G.E[a].sibling \in {b, G.E[b].adjRef}

\* C15: the copy reproduces the graph: the same vertices with label, part,
\* family, direction and extremities, the same edge count, and a one-to-one
\* correspondence of the logical edges that keeps endpoints, extremities and
\* labels and under which two copied edges are siblings exactly when the
\* originals are.
C15_CopyReproducesGraph ==
    op.name = "copy" =>
        /\ ~crashed
        /\ copy.n = g.n /\ copy.m = g.m /\ Live(copy) = Live(g)
        /\ \A v \in Live(g) :
              /\ copy.vertices[v].label = g.vertices[v].label
              /\ copy.vertices[v].part = g.vertices[v].part
              /\ copy.vertices[v].family = g.vertices[v].family
              /\ copy.vertices[v].direction = g.vertices[v].direction
              /\ copy.vertices[v].ex1 = g.vertices[v].ex1
              /\ copy.vertices[v].ex2 = g.vertices[v].ex2
        /\ Cardinality(Handles(copy)) = Cardinality(Handles(g))
        /\ \E f \in [Handles(g) -> Handles(copy)] :
              /\ \A a, b \in Handles(g) : f[a] = f[b] => a = b
              /\ \A a \in Handles(g) : EdgeShape(copy, f[a]) = EdgeShape(g, a)
              /\ \A a, b \in Handles(g) : Siblings(copy, f[a], f[b]) <=> Siblings(g, a, b)

(***************************************************************************)
(* The mirror runs: from a graph whose vertices and edges carry            *)
(* extremities, a driver calls addVertex, addEdge, setExtremities, both    *)
(* forms of removeEdge and removeVertex in any order.                      *)
(***************************************************************************)
NextMirror ==
    \/ \E part \in Parts : AddVertex(part)
    \/ \E v1, v2 \in Live(g), label \in EdgeLabels : v1 < v2 /\ AddEdge(v1, v2, label)
    \/ \E e \in Handles(g), x \in StoreExtremities : SetExtremities(e, x)
    \/ \E e \in Handles(g) : RemoveEdge(e)
    \/ \E ex1, ex2 \in RemoveExtremities : RemoveEdgeEx(ex1, ex2)
    \/ \E v \in Live(g) : RemoveVertex(v)

SpecMirror == InitRemove /\ [][NextMirror]_vars

\* the elements of a sequence
Range(q) == {q[i] : i \in 1..Len(q)}

C17_SiblingSymmetricNoDangling ==
    \A a \in Records(g) :
        g.E[a].sibling # NULL =>
            /\ g.E[a].sibling \in Records(g)
            /\ g.E[g.E[a].adjRef].sibling = g.E[a].sibling
            /\ g.E[g.E[a].sibling].sibling \in {a, g.E[a].adjRef}

(***************************************************************************)
(* The counters: getN, partSize and familySize, and the runs that add and  *)
(* remove vertices of several parts and families and move them to another  *)
(* part with Vertex::setPart.                                              *)
(***************************************************************************)
\* the conversions the calls go through, an unsigned int held as its two
\* 16-bit halves: unsigned int to char, char to unsigned int, unsigned int
\* to int (two's complement)
UIntToChar(u) == LET y == u % 256 IN IF y > 127 THEN y - 256 ELSE y
CharToUInt(c) == [hi |-> IF c < 0 THEN 65535 ELSE 0, lo |-> c % 65536]
UIntToInt(u) == (IF u.hi >= 32768 THEN u.hi - 65536 ELSE u.hi) * 65536 + u.lo

\* Graph::getN
getN(G) == G.n

\* Graph::partSize
partSize(G, part) == IF part < 0 \/ part > 127 THEN 0 ELSE Count(G.npart, part)

\* Graph::familySize(unsigned int family, char part = -1): it counts the
\* vertices of begin(family, part), whose parameters are (char part,
\* unsigned int family)
familySize(G, family, part) ==
    Len(Visit(G, UIntToChar(family), UIntToInt(CharToUInt(part))))

\* Vertex::setPart (the part field is an unsigned char)
setPart(G, v, part) == [G EXCEPT !.vertices[v].part = part % 256]

CountParts == {0, 1}

AddVertexAuto(part, family) ==
    /\ ~crashed
    /\ g.n < MaxV
    /\ Count(g.npart, part) < MaxV
    /\ LET r == addVertex(g, NullLabel, part, family)
       IN /\ g' = r.g
          /\ op' = Call("addVertex", part, family, r.ret)
    /\ UNCHANGED <<cg, cycles, built, copy, path, crashed, heap>>

AddVertexAt(id, part, family) ==
    /\ Count(g.npart, part) < MaxV
    /\ AddVertexId(id, part, family)

\* Graph::removeVertex(int id)
RemoveVertexId(id) ==
    /\ ~crashed
    /\ LET v == getVertex(g, id, NULL)
       IN /\ v # NULL => Count(g.npart, g.vertices[v].part) > 0 - MaxV
          /\ IF DanglingIncident(g, v)
             THEN g' = g /\ crashed' = TRUE
             ELSE g' = removeVertex(g, v) /\ crashed' = FALSE
    /\ op' = Call("removeVertexId", id, NULL, NULL)
    /\ UNCHANGED <<cg, cycles, built, copy, path, heap>>

SetPart(v, part) ==
    /\ ~crashed
    /\ g' = setPart(g, v, part)
    /\ op' = Call("setPart", v, part, NULL)
    /\ UNCHANGED <<cg, cycles, built, copy, path, crashed, heap>>

NextCount ==
    \/ \E part \in CountParts, family \in Families : AddVertexAuto(part, family)
    \/ \E id \in 0..MaxV, part \in CountParts, family \in Families : AddVertexAt(id, part, family)
    \/ \E id \in 0..(g.maxn - 1) : RemoveVertexId(id)
    \/ \E v \in Live(g), part \in CountParts : SetPart(v, part)

SpecCount == Init /\ [][NextCount]_vars

\* C18: getN() is the number of live vertices and, for every part p of
\* 0..127, partSize(p) is the number of live vertices whose part is p now.
C18_CountersMatchLiveVertices ==
    /\ getN(g) = Cardinality(Live(g))
    /\ \A p \in 0..127 :
          partSize(g, p) = Cardinality({v \in Live(g) : g.vertices[v].part = p})

\* C19: familySize(f) is the number of live vertices of family f, and
\* familySize(f, p) with p >= 0 the number of those that are in part p.
C19_FamilySizeCountsFamily ==
    \A f \in Families :
        /\ familySize(g, f, -1) = Cardinality({v \in Live(g) : g.vertices[v].family = f})
        /\ \A p \in CountParts :
              familySize(g, f, p) =
                  Cardinality({v \in Live(g) : g.vertices[v].family = f /\ g.vertices[v].part = p})

(***************************************************************************)
(* The path runs: a caller grows and shrinks one Path over a graph of two  *)
(* vertices joined by one edge, with any vertex and any edge record.       *)
(***************************************************************************)
PathGraph ==
    LET G1 == addVertex(NewGraph(2), NullLabel, 0, 0).g
        G2 == addVertex(G1, NullLabel, 0, 0).g
    IN addEdge(G2, 0, 1, "a", FreshSlot(G2)).g

InitPath ==
    /\ g = PathGraph
    /\ cg = NoGraph
    /\ cycles = <<>>
    /\ built = 0
    /\ copy = NoGraph
    /\ path = PathEmpty
    /\ op = NoOp
    /\ crashed = FALSE
    /\ heap = NoHeap

DoPathAddVertex(x) ==
    /\ path.l < MaxPath
    /\ path' = PathAddVertex(path, x)
    /\ UNCHANGED <<g, cg, cycles, built, copy, op, crashed, heap>>

DoPathAddEdge(x) ==
    /\ path.le < MaxPath
    /\ path' = PathAddEdge(path, x)
    /\ UNCHANGED <<g, cg, cycles, built, copy, op, crashed, heap>>

DoPathRemoveVertex ==
    /\ path.l > 0
    /\ path' = PathRemoveVertex(path)
    /\ UNCHANGED <<g, cg, cycles, built, copy, op, crashed, heap>>

DoPathRemoveEdge ==
    /\ path.le > 0
    /\ path' = PathRemoveEdge(path)
    /\ UNCHANGED <<g, cg, cycles, built, copy, op, crashed, heap>>

NextPath ==
    \/ \E x \in Live(g) : DoPathAddVertex(x)
    \/ \E x \in Records(g) : DoPathAddEdge(x)
    \/ DoPathRemoveVertex
    \/ DoPathRemoveEdge

SpecPath == InitPath /\ [][NextPath]_vars

\* C20: isCycle() is true exactly when the path has one vertex more than it
\* has edges and its first vertex is its last, or has as many vertices as
\* edges and its last edge leads to its first vertex; the singleton path and
\* the paths with a single edge are included.
C20_IsCycleIff ==
    isCycle(g, path) <=>
        \/ (path.l = path.le + 1 /\ PathFirst(path) = PathLast(path))
        \/ (path.le >= 1 /\ path.l = path.le /\ g.E[PathLastE(path)].adj = PathFirst(path))

\* the same with more than one vertex in the first case and more than one
\* edge in the second
C20_IsCycleIffLongEnough ==
    isCycle(g, path) <=>
        \/ (path.l > 1 /\ path.l = path.le + 1 /\ PathFirst(path) = PathLast(path))
        \/ (path.le > 1 /\ path.l = path.le /\ g.E[PathLastE(path)].adj = PathFirst(path))

\* a path of as many vertices as edges that isCycle() accepts
C20_Witness ==
    /\ path.l = path.le
    /\ isCycle(g, path)

(***************************************************************************)
(* The query runs: a Path over a graph of up to MaxE catalogue edges is    *)
(* asked once whether it is consistent, whether an edge extends it         *)
(* consistently, or for its signature.                                     *)
(***************************************************************************)
\* the catalogue entries a, d, x, y, p
QueryEntries == {1, 4, 8, 9, 10}

QueryGraphs ==
    { DriverAddEdges(DriverAddVertices(NewGraph(0), <<0, 0, 0>>), Ascending(S)) :
        S \in {T \in SUBSET QueryEntries : Cardinality(T) <= MaxE} }

\* Path(v) followed by one add(e->getAdj(), e) per record of es, v the vertex
\* that holds the first record (vertex 0 when es is empty)
RECURSIVE PathAddAll(_, _, _)
PathAddAll(G, p, es) ==
    IF es = <<>> THEN p
    ELSE PathAddAll(G, PathAddVertex(PathAddEdge(p, Head(es)), G.E[Head(es)].adj), Tail(es))

QueryPath(G, es) ==
    PathAddAll(G, PathOf(IF es = <<>> THEN 0 ELSE G.E[G.E[es[1]].adjRef].adj), es)

QueryPaths(G) ==
    {QueryPath(G, es) : es \in UNION {[1..k -> Records(G)] : k \in 0..MaxPath}}

InitQuery ==
    /\ g \in QueryGraphs
    /\ cg = NoGraph
    /\ cycles = <<>>
    /\ built = 0
    /\ copy = NoGraph
    /\ path \in QueryPaths(g)
    /\ op = NoOp
    /\ crashed = FALSE
    /\ heap = NoHeap

CallConsistent ==
    /\ op.name = NoOp.name
    /\ op' = [name |-> "consistent", ret |-> consistent(g, path)]
    /\ UNCHANGED <<g, cg, cycles, built, copy, path, crashed, heap>>

CallConsistentEdge(x) ==
    /\ op.name = NoOp.name
    /\ LET r == consistentEdge(g, path, x)
       IN /\ path' = r.p
          /\ op' = [name |-> "consistentEdge", ret |-> r.ret]
    /\ UNCHANGED <<g, cg, cycles, built, copy, crashed, heap>>

CallSignature ==
    /\ op.name = NoOp.name
    /\ op' = [name |-> "signature", ret |-> signature(g, path)]
    /\ UNCHANGED <<g, cg, cycles, built, copy, path, crashed, heap>>

NextQuery ==
    \/ CallConsistent
    \/ \E x \in Records(g) : CallConsistentEdge(x)
    \/ CallSignature

SpecQuery == InitQuery /\ [][NextQuery]_vars

\* the logical edge (pair of mirror records) of record r
Logical(G, r) == {r, G.E[r].adjRef}

\* C21: consistent() is false exactly when two positions i < j of the path
\* hold incompatible edges or the same logical edge.
C21_ConsistentIffNoConflictingPair ==
    op.name = "consistent" =>
        (op.ret = FALSE <=>
            \E i, j \in 1..path.le :
                /\ i < j
                /\ \/ incompatible(g.E[path.e[i]], g.E[path.e[j]])
                   \/ Logical(g, path.e[i]) = Logical(g, path.e[j]))

\* consistent() has rejected a path that holds both mirror records of one
\* edge with an edge in between
C21_Witness ==
    /\ op.name = "consistent"
    /\ op.ret = FALSE
    /\ path.le = 3
    /\ path.e[3] = g.E[path.e[1]].adjRef
    /\ path.e[2] \notin Logical(g, path.e[1])

\* C22: consistent(candidateEdge) leaves the vertex sequence, the edge
\* sequence and both lengths of the path as they were; it answers false when
\* the candidate or its mirror is in the path, and otherwise what
\* consistent() answers on the path extended by the candidate.
C22_ConsistentEdgeRestoresPath ==
    [][\A x \in Records(g) :
         op'.name = "consistentEdge" /\ CallConsistentEdge(x) =>
           /\ path'.l = path.l
           /\ path'.le = path.le
           /\ PathVertices(path') = PathVertices(path)
           /\ PathEdges(path') = PathEdges(path)
           /\ op'.ret =
                IF \E i \in 1..path.le : path.e[i] \in Logical(g, x) THEN FALSE
                ELSE consistent(g, PathAddEdge(path, x))]_vars

\* a candidate has been accepted on a path of one edge, whose containers
\* still hold that one edge and its two vertices
C22_Witness ==
    /\ op.name = "consistentEdge"
    /\ op.ret = TRUE
    /\ path.le = 1
    /\ path.l = 2

\* C23: the signature is canonical: two paths that hold the same set of
\* logical edges, each edge once, in any order and by either mirror record,
\* have the same signature.
C23_SignatureCanonical ==
    op.name = "signature" /\ Cardinality(LogicalEdges(g, PathEdges(path))) = path.le =>
        \A q \in QueryPaths(g) :
            ( /\ q.le = path.le
              /\ LogicalEdges(g, PathEdges(q)) = LogicalEdges(g, PathEdges(path)) )
            => signature(g, q) = op.ret

\* both extremities of record r are defined
Defined(G, r) == G.E[r].ex1.t # UNDEF /\ G.E[r].ex2.t # UNDEF

\* C26: the edge ordering is well defined on logical edges: for records x and
\* y of different edges (here with all extremities defined) the answer of
\* x < y is the same whichever mirror record stands for each edge, and x < y
\* and y < x never both hold.
C26_OrderingWellDefined ==
    \A x \in {0, 1} : \A y \in {2, 3} :
        Defined(g, x) /\ Defined(g, y) =>
            /\ \A x2 \in Logical(g, x) : \A y2 \in Logical(g, y) :
                   EdgeLess(g, x, y) = EdgeLess(g, x2, y2)
            /\ ~(EdgeLess(g, x, y) /\ EdgeLess(g, y, x))

\* the closed walk w taken in the other direction: the mirror records, last first
Reversed(G, w) == [i \in 1..Len(w) |-> G.E[w[Len(w) + 1 - i]].adjRef]

\* the Paths that the rounds started at vertex s leave in the list
FinalList(G, s, len) == Rounds(G, <<PathOf(s)>>, 0, len)

\* C25: for every start vertex s and every consistent simple closed walk of
\* len edges from s, exactly one of its two directions passes the final-step
\* test and is in the list the rounds started at s leave.
C25_ExactlyOneDirection ==
    BuiltLen >= 2 =>
        \A s \in {v \in Live(g) : g.vertices[v].part = StartPart(g)} :
            \A w \in {u \in WalksFrom(g, s, BuiltLen) : g.E[u[BuiltLen]].adj = s} :
                SimpleWalk(g, w) /\ ConsistentWalk(g, w) =>
                    LET list == FinalList(g, s, BuiltLen)
                    IN Cardinality({d \in {w, Reversed(g, w)} :
                                      \E k \in 1..Len(list) : PathEdges(list[k]) = d}) = 1

\* the final-round cycles of every start vertex, in the order the signature
\* filter meets them
RECURSIVE FoundFrom(_, _, _)
FoundFrom(G, starts, len) ==
    IF starts = <<>> THEN <<>>
    ELSE FinalList(G, Head(starts), len) \o FoundFrom(G, Tail(starts), len)

Found(G, len) == FoundFrom(G, Visit(G, StartPart(G), -1), len)

\* C27: of the final-round cycles with the same signature only the first
\* found is kept: every signature found is kept once, by the first cycle that
\* has it, and no two conflict-graph vertices store Paths of equal signature.
C27_OneCyclePerSignature ==
    BuiltLen >= 2 =>
        LET found == Found(g, BuiltLen)
        IN /\ \A k \in 1..Len(found) :
                  \E j \in 1..Len(cycles) : signature(g, cycles[j]) = signature(g, found[k])
           /\ \A j \in 1..Len(cycles) :
                  \E k \in 1..Len(found) :
                      /\ found[k] = cycles[j]
                      /\ \A i \in 1..(k - 1) : signature(g, found[i]) # signature(g, found[k])
           /\ \A i, j \in 1..Len(cycles) :
                  i # j => signature(g, cycles[i]) # signature(g, cycles[j])
           /\ \A u, v \in Live(cg) :
                  u # v => signature(g, cycles[cg.vertices[u].data])
                               # signature(g, cycles[cg.vertices[v].data])

\* two final-round cycles had the same signature and one of them is stored
C27_Witness ==
    /\ BuiltLen >= 2
    /\ \E i, k \in 1..Len(Found(g, BuiltLen)) :
           /\ i < k
           /\ signature(g, Found(g, BuiltLen)[i]) = signature(g, Found(g, BuiltLen)[k])
    /\ cg.n >= 1

\* the unordered pairs of distinct cycle-vertices whose Paths hold a pair of
\* incompatible edges with defined extremities
ConflictingPairs ==
    { pr \in {{u, w} : u, w \in Live(cg)} :
        /\ Cardinality(pr) = 2
        /\ \E u, w \in pr :
              /\ u # w
              /\ \E x \in DefinedEdges(g, StoredPath(u)), y \in DefinedEdges(g, StoredPath(w)) :
                     incompatible(g.E[x], g.E[y]) }

\* C28: the conflict graph is simple: no record leads from a cycle-vertex to
\* itself, no two records of one adjacency list lead to the same
\* cycle-vertex, and the edge count is the number of unordered conflicting
\* pairs of cycle-vertices.
C28_ConflictGraphSimple ==
    built >= 1 =>
        /\ \A u \in Live(cg) : ~Adjacent(cg, u, u)
        /\ \A u \in Live(cg) :
               \A i, j \in 1..Len(cg.vertices[u].edges) :
                   i # j => cg.E[cg.vertices[u].edges[i]].adj # cg.E[cg.vertices[u].edges[j]].adj
        /\ 2 * cg.m = Cardinality(Records(cg))
        /\ cg.m = Cardinality(ConflictingPairs)

\* two cycle-vertices of a built conflict graph conflict through more than
\* one pair of edges
C28_Witness ==
    /\ built >= 1
    /\ \E u, w \in Live(cg) :
           /\ u # w
           /\ Adjacent(cg, u, w)
           /\ Cardinality({xy \in DefinedEdges(g, StoredPath(u)) \X DefinedEdges(g, StoredPath(w)) :
                              incompatible(g.E[xy[1]], g.E[xy[2]])}) >= 2

(***************************************************************************)
(* The ownership runs: a CyclesGraph is constructed, its user removes      *)
(* cycle-vertices with Graph::removeVertex, and the CyclesGraph is deleted.*)
(***************************************************************************)
\* cg->removeVertex(v) on a cycle-vertex v: Graph::removeVertex and
\* Vertex::~Vertex leave the data of v alone
RemoveCycleVertex(v) ==
    /\ built > 0
    /\ op.name # "~CyclesGraph"
    /\ cg' = removeVertex(cg, v)
    /\ op' = Call("removeVertex", v, NULL, NULL)
    /\ UNCHANGED <<g, cycles, built, copy, path, crashed, heap>>

\* delete cg: ~CyclesGraph deletes the Path of every vertex, ~Graph the vertices
Destroy ==
    /\ built > 0
    /\ op.name # "~CyclesGraph"
    /\ heap' = DestroyHeap(cg, heap)
    /\ cg' = NoGraph
    /\ op' = Call("~CyclesGraph", NULL, NULL, NULL)
    /\ UNCHANGED <<g, cycles, built, copy, path, crashed>>

NextOwn ==
    \/ \E len \in 0..MaxLen : Construct(len)
    \/ \E v \in Live(cg) : RemoveCycleVertex(v)
    \/ Destroy

SpecOwn == InitCycles /\ [][NextOwn]_vars

\* C24: no Path is deleted twice; while the CyclesGraph lives, every Path not
\* yet deleted is the data of exactly one cycle-vertex (so the Path of a
\* removed vertex has been deleted); and once the CyclesGraph is deleted
\* every Path allocated has been deleted exactly once.
C24_PathsFreedExactlyOnce ==
    /\ \A i \in 1..Len(heap.count) : heap.count[i] <= 1
    /\ built > 0 /\ op.name # "~CyclesGraph" =>
          \A i \in 1..Len(heap.count) :
              heap.count[i] = 0 =>
                  Cardinality({v \in Live(cg) : heap.owned[cg.vertices[v].data] = i}) = 1
    /\ op.name = "~CyclesGraph" => \A i \in 1..Len(heap.count) : heap.count[i] = 1

====
